---- MODULE Spec2Model ----
(***************************************************************************)
(* Model of src/native/src/lib.rs: calculate_gc_content(sequence, length), *)
(* the single-pass GC-content scan over a caller-owned byte buffer.        *)
(*                                                                         *)
(* A call is modelled step by step: entry (the length check, the two       *)
(* local counters, the slice), one step per loop iteration, and the        *)
(* return (the valid_bases check and the floating-point division).         *)
(* Several calls may be in flight at once, one per thread, all reading     *)
(* windows of the same caller-owned buffer.                                *)
(***************************************************************************)
EXTENDS Integers, Sequences, FiniteSets

----------------------------------------------------------------------------
(* Bounds of the model *)

\* Longest caller buffer of the single-caller specification Spec.
MaxLen == 3

\* Number of threads and buffer length of the concurrent specification.
NumThreads == 2

ConcLen == 2

----------------------------------------------------------------------------
(* Byte values named in the source *)

b_G == 71

b_C == 67

b_g == 103

b_c == 99

b_A == 65

b_T == 84

b_a == 97

b_t == 116

\* Two bytes of the `_` arm, the ones the tests use.
b_N == 78

b_X == 88

\* The bytes the caller's buffers are drawn from: the eight matched
\* literals and two bytes that fall through to the `_` arm.
Bytes == {b_G, b_C, b_g, b_c, b_A, b_T, b_a, b_t, b_N, b_X}

\* A smaller alphabet (one byte per match arm) for the concurrent runs.
ConcBytes == {b_G, b_a, b_N}

Threads == 1..NumThreads

\* The thread that makes the calls of the single-caller specification.
Main == 1

SeqsUpTo(S, n) == UNION {[1..k -> S] : k \in 0..n}

----------------------------------------------------------------------------
(* f64 values.  A finite non-negative value is the pair <<num, den>> in    *)
(* lowest terms, den > 0; 0/0 is NaN and x/0 (x > 0) is +infinity.  The    *)
(* conversions `as f64` are exact for counts below 2^53 and IEEE division  *)
(* is correctly rounded, so two quotients of such counts are the same f64  *)
(* exactly when they are the same rational.                                *)

RECURSIVE Gcd(_, _)
Gcd(a, b) == IF b = 0 THEN a ELSE Gcd(b, a % b)

F64Zero == <<0, 1>>

F64One == <<1, 1>>

F64NaN == <<0, 0>>

F64Inf == <<1, 0>>

\* Integer division, the truncating quotient of the two counts.
F64DivTruncating(a, b) ==
    IF b = 0 THEN (IF a = 0 THEN F64NaN ELSE F64Inf)
    ELSE <<a \div b, 1>>

\* gc_count as f64 / valid_bases as f64
F64Div(a, b) ==
    IF b = 0 THEN (IF a = 0 THEN F64NaN ELSE F64Inf)
    ELSE <<a \div Gcd(a, b), b \div Gcd(a, b)>>

IsFinite(r) == Len(r) = 2 /\ r[2] > 0

F64Leq(r, s) == r[1] * s[2] <= s[1] * r[2]

F64Lt(r, s) == r[1] * s[2] < s[1] * r[2]

----------------------------------------------------------------------------
(* The match on one byte *)

\* The `t` literal left out of the A/T arm.
MatchBaseNoLowerT(base, gc, valid) ==
    IF base \in {b_G, b_C, b_g, b_c} THEN <<gc + 1, valid + 1>>
    ELSE IF base \in {b_A, b_T, b_a} THEN <<gc, valid + 1>>
    ELSE <<gc, valid>>

\* The A/T arm incrementing the wrong counter.
MatchBaseWrongCounter(base, gc, valid) ==
    IF base \in {b_G, b_C, b_g, b_c} THEN <<gc + 1, valid + 1>>
    ELSE IF base \in {b_A, b_T, b_a, b_t} THEN <<gc + 1, valid>>
    ELSE <<gc, valid>>

\* Upper-case literals only.
MatchBaseUpperOnly(base, gc, valid) ==
    IF base \in {b_G, b_C} THEN <<gc + 1, valid + 1>>
    ELSE IF base \in {b_A, b_T} THEN <<gc, valid + 1>>
    ELSE <<gc, valid>>

\* The `_` arm counting the byte as a valid base.
MatchBaseCountsOther(base, gc, valid) ==
    IF base \in {b_G, b_C, b_g, b_c} THEN <<gc + 1, valid + 1>>
    ELSE IF base \in {b_A, b_T, b_a, b_t} THEN <<gc, valid + 1>>
    ELSE <<gc, valid + 1>>

\* `gc_count = 1` written for `gc_count += 1`.
MatchBaseAssigns(base, gc, valid) ==
    IF base \in {b_G, b_C, b_g, b_c} THEN <<1, valid + 1>>
    ELSE IF base \in {b_A, b_T, b_a, b_t} THEN <<gc, valid + 1>>
    ELSE <<gc, valid>>

\* `valid_bases = gc_count` written for `valid_bases += 1` in the G/C arm.
MatchBaseValidFromGc(base, gc, valid) ==
    IF base \in {b_G, b_C, b_g, b_c} THEN <<gc + 1, gc + 1>>
    ELSE IF base \in {b_A, b_T, b_a, b_t} THEN <<gc, valid + 1>>
    ELSE <<gc, valid>>

\* match base { G|C|g|c => both += 1, A|T|a|t => valid_bases += 1, _ => {} }
\* The pair <<gc_count, valid_bases>> after the arm taken for `base`.
MatchBase(base, gc, valid) ==
    IF base \in {b_G, b_C, b_g, b_c} THEN <<gc + 1, valid + 1>>
    ELSE IF base \in {b_A, b_T, b_a, b_t} THEN <<gc, valid + 1>>
    ELSE <<gc, valid>>

\* The division without the valid_bases == 0 check before it.
RatioUnguarded(gc, valid) == F64Div(gc, valid)

\* if valid_bases == 0 { return 0.0 }  gc_count as f64 / valid_bases as f64
Ratio(gc, valid) == IF valid = 0 THEN F64Zero ELSE F64Div(gc, valid)

\* The loop over a whole slice s, from element i on, starting from acc.
RECURSIVE Scan(_, _, _)
Scan(s, i, acc) ==
    IF i > Len(s) THEN acc
    ELSE Scan(s, i + 1, MatchBase(s[i], acc[1], acc[2]))

\* One whole call on the bytes s with length Len(s).
calculate_gc_content(s) ==
    IF Len(s) = 0 THEN F64Zero
    ELSE LET acc == Scan(s, 1, <<0, 0>>) IN Ratio(acc[1], acc[2])

----------------------------------------------------------------------------
(* State *)

VARIABLES
    buffer,        \* the caller-owned bytes all views are windows of
    pc,            \* per thread: "idle", "loop" or "returned"
    sequence,      \* per thread: the pointer argument, an offset into buffer
    length,        \* per thread: the length argument
    gc_count,      \* per thread: the local counter (0 when no frame is live)
    valid_bases,   \* per thread: the local counter (0 when no frame is live)
    iter,          \* per thread: index of the slice iterator's next element
    slice_formed,  \* per thread: whether this call built sequence_slice
    reads,         \* per thread: the slice indices this call has read, in order
    result         \* per thread: the value its call returned, <<>> before
                   \* the first call and while a call is in flight

vars == <<buffer, pc, sequence, length, gc_count, valid_bases, iter,
          slice_formed, reads, result>>

\* The bytes thread c's (pointer, length) pair describes.
View(c) == SubSeq(buffer, sequence[c] + 1, sequence[c] + length[c])

\* The byte(s) a read of buffer offset a may yield: the byte stored there,
\* or any byte at all when a lies outside the caller's buffer.
MemRead(a) == IF a + 1 \in 1..Len(buffer) THEN {buffer[a + 1]} ELSE Bytes

InitCommon ==
    /\ pc = [c \in Threads |-> "idle"]
    /\ sequence = [c \in Threads |-> 0]
    /\ length = [c \in Threads |-> 0]
    /\ gc_count = [c \in Threads |-> 0]
    /\ valid_bases = [c \in Threads |-> 0]
    /\ iter = [c \in Threads |-> 0]
    /\ slice_formed = [c \in Threads |-> FALSE]
    /\ reads = [c \in Threads |-> <<>>]
    /\ result = [c \in Threads |-> <<>>]

Init == buffer \in SeqsUpTo(Bytes, MaxLen) /\ InitCommon

InitConc == buffer \in [1..ConcLen -> ConcBytes] /\ InitCommon

----------------------------------------------------------------------------
(* Actions *)

\* Entry without the length == 0 early return.
CallNoLengthCheck(c, ptr, len) ==
    /\ pc[c] \in {"idle", "returned"}
    /\ ptr + len <= Len(buffer)
    /\ sequence' = [sequence EXCEPT ![c] = ptr]
    /\ length' = [length EXCEPT ![c] = len]
    /\ reads' = [reads EXCEPT ![c] = <<>>]
    /\ gc_count' = [gc_count EXCEPT ![c] = 0]
    /\ valid_bases' = [valid_bases EXCEPT ![c] = 0]
    /\ iter' = [iter EXCEPT ![c] = 0]
    /\ slice_formed' = [slice_formed EXCEPT ![c] = TRUE]
    /\ pc' = [pc EXCEPT ![c] = "loop"]
    /\ result' = [result EXCEPT ![c] = <<>>]
    /\ UNCHANGED buffer

\* Entry with the two counters kept in statics that all calls share.
CallSharedCounters(c, ptr, len) ==
    /\ pc[c] \in {"idle", "returned"}
    /\ ptr + len <= Len(buffer)
    /\ sequence' = [sequence EXCEPT ![c] = ptr]
    /\ length' = [length EXCEPT ![c] = len]
    /\ reads' = [reads EXCEPT ![c] = <<>>]
    /\ IF len = 0
         THEN /\ result' = [result EXCEPT ![c] = F64Zero]
              /\ slice_formed' = [slice_formed EXCEPT ![c] = FALSE]
              /\ pc' = [pc EXCEPT ![c] = "returned"]
              /\ UNCHANGED <<gc_count, valid_bases, iter>>
         ELSE /\ gc_count' = [t \in Threads |-> 0]
              /\ valid_bases' = [t \in Threads |-> 0]
              /\ iter' = [iter EXCEPT ![c] = 0]
              /\ slice_formed' = [slice_formed EXCEPT ![c] = TRUE]
              /\ pc' = [pc EXCEPT ![c] = "loop"]
              /\ result' = [result EXCEPT ![c] = <<>>]
    /\ UNCHANGED buffer

\* Thread c enters calculate_gc_content(ptr, len).  The caller's contract:
\* ptr points to at least len readable bytes of buffer.
Call(c, ptr, len) ==
    /\ pc[c] \in {"idle", "returned"}
    /\ ptr + len <= Len(buffer)
    /\ sequence' = [sequence EXCEPT ![c] = ptr]
    /\ length' = [length EXCEPT ![c] = len]
    /\ reads' = [reads EXCEPT ![c] = <<>>]
    /\ IF len = 0
         THEN /\ result' = [result EXCEPT ![c] = F64Zero]
              /\ slice_formed' = [slice_formed EXCEPT ![c] = FALSE]
              /\ pc' = [pc EXCEPT ![c] = "returned"]
              /\ UNCHANGED <<gc_count, valid_bases, iter>>
         ELSE /\ gc_count' = [gc_count EXCEPT ![c] = 0]
              /\ valid_bases' = [valid_bases EXCEPT ![c] = 0]
              /\ iter' = [iter EXCEPT ![c] = 0]
              /\ slice_formed' = [slice_formed EXCEPT ![c] = TRUE]
              /\ pc' = [pc EXCEPT ![c] = "loop"]
              /\ result' = [result EXCEPT ![c] = <<>>]
    /\ UNCHANGED buffer

\* One iteration of `for &base in sequence_slice`.
LoopStep(c) ==
    /\ pc[c] = "loop"
    /\ iter[c] < length[c]
    /\ \E base \in MemRead(sequence[c] + iter[c]) :
         LET m == MatchBase(base, gc_count[c], valid_bases[c]) IN
           /\ gc_count' = [gc_count EXCEPT ![c] = m[1]]
           /\ valid_bases' = [valid_bases EXCEPT ![c] = m[2]]
    /\ reads' = [reads EXCEPT ![c] = Append(@, iter[c])]
    /\ iter' = [iter EXCEPT ![c] = @ + 1]
    /\ UNCHANGED <<buffer, pc, sequence, length, slice_formed, result>>

\* The iterator is exhausted: the valid_bases check, the division, and the
\* return, which ends the lifetime of the two counters.
Return(c) ==
    /\ pc[c] = "loop"
    /\ iter[c] = length[c]
    /\ result' = [result EXCEPT ![c] = Ratio(gc_count[c], valid_bases[c])]
    /\ gc_count' = [gc_count EXCEPT ![c] = 0]
    /\ valid_bases' = [valid_bases EXCEPT ![c] = 0]
    /\ iter' = [iter EXCEPT ![c] = 0]
    /\ pc' = [pc EXCEPT ![c] = "returned"]
    /\ UNCHANGED <<buffer, sequence, length, slice_formed, reads>>

\* One caller, calling again and again over any window of its buffer.
Next ==
    \/ \E ptr \in 0..MaxLen, len \in 0..MaxLen : Call(Main, ptr, len)
    \/ LoopStep(Main)
    \/ Return(Main)

Spec == Init /\ [][Next]_vars

\* Every thread calling, the calls interleaved step by step.
NextConc ==
    \E c \in Threads :
        \/ \E ptr \in 0..ConcLen, len \in 0..ConcLen : Call(c, ptr, len)
        \/ LoopStep(c)
        \/ Return(c)

SpecConc == InitConc /\ [][NextConc]_vars

----------------------------------------------------------------------------
(* Reference notions the properties are stated with *)

RefGcBytes == {b_G, b_C, b_g, b_c}

RefAtBytes == {b_A, b_T, b_a, b_t}

RefValidBytes == RefGcBytes \cup RefAtBytes

\* Number of positions of s holding a byte of B.
CountIn(s, B) == Cardinality({i \in 1..Len(s) : s[i] \in B})

\* The part of thread c's view its loop has scanned so far.
Scanned(c) == SubSeq(View(c), 1, iter[c])

\* The call of thread c has finished its loop and not yet returned.
AtLoopExit(c) == pc[c] = "loop" /\ iter[c] = length[c]

Returned(c) == pc[c] = "returned"

\* The same letter in the other ASCII case; other bytes are left alone.
FlipCase(b) ==
    CASE b = b_G -> b_g [] b = b_g -> b_G
      [] b = b_C -> b_c [] b = b_c -> b_C
      [] b = b_A -> b_a [] b = b_a -> b_A
      [] b = b_T -> b_t [] b = b_t -> b_T
      [] OTHER -> b

FlipAt(s, S) == [i \in 1..Len(s) |-> IF i \in S THEN FlipCase(s[i]) ELSE s[i]]

IsValidByte(b) == b \in RefValidBytes

StripOther(s) == SelectSeq(s, IsValidByte)

InsertAt(s, p, b) == SubSeq(s, 1, p) \o <<b>> \o SubSeq(s, p + 1, Len(s))

Perms(n) == {p \in [1..n -> 1..n] : \A i, j \in 1..n : i # j => p[i] # p[j]}

Permute(s, p) == [i \in 1..Len(s) |-> s[p[i]]]

Counts(s) == Scan(s, 1, <<0, 0>>)

----------------------------------------------------------------------------
(* C1: while a call scans, gc_count and valid_bases are exactly the number *)
(* of scanned positions holding G/C/g/c and holding A/C/G/T/a/c/g/t; and a *)
(* call on a view with at least one such byte returns gc/valid for the     *)
(* two reference counts of the whole view.                                 *)
C1_RatioOfReferenceCounts ==
    \A c \in Threads :
        /\ pc[c] = "loop" =>
              /\ gc_count[c] = CountIn(Scanned(c), RefGcBytes)
              /\ valid_bases[c] = CountIn(Scanned(c), RefValidBytes)
        /\ (Returned(c) /\ CountIn(View(c), RefValidBytes) > 0) =>
              /\ IsFinite(result[c])
              /\ result[c][1] * CountIn(View(c), RefValidBytes)
                   = CountIn(View(c), RefGcBytes) * result[c][2]

C1_Witness ==
    /\ Returned(Main)
    /\ View(Main) = <<b_A, b_t, b_G>>
    /\ result[Main] = <<1, 3>>

(* C2: in every state of a scan 0 <= gc_count <= valid_bases <= bytes      *)
(* scanned so far <= length, and every returned value lies in [0.0, 1.0].  *)
C2_CountersOrderedResultInUnitInterval ==
    \A c \in Threads :
        /\ pc[c] = "loop" =>
              /\ 0 <= gc_count[c]
              /\ gc_count[c] <= valid_bases[c]
              /\ valid_bases[c] <= Len(reads[c])
              /\ Len(reads[c]) = iter[c]
              /\ iter[c] <= length[c]
        /\ Returned(c) =>
              /\ IsFinite(result[c])
              /\ F64Leq(F64Zero, result[c])
              /\ F64Leq(result[c], F64One)

C2_Witness ==
    /\ AtLoopExit(Main)
    /\ 0 < gc_count[Main]
    /\ gc_count[Main] < valid_bases[Main]
    /\ valid_bases[Main] < iter[Main]

(* C3: every call returns a finite ratio (never NaN, never an infinity,    *)
(* never no value), and exactly 0.0 when no byte of its view is one of     *)
(* A/C/G/T/a/c/g/t, for the empty view and for non-empty ones alike.       *)
C3_DegenerateInputReturnsZero ==
    \A c \in Threads :
        Returned(c) =>
            /\ IsFinite(result[c])
            /\ CountIn(View(c), RefValidBytes) = 0 => result[c] = F64Zero

C3_Witness ==
    /\ Returned(Main)
    /\ View(Main) = <<b_N, b_N, b_X>>
    /\ result[Main] = F64Zero

(* C4: flipping the ASCII case of the letters at any set of positions of   *)
(* the view gives the same (gc_count, valid_bases) pair and the same       *)
(* returned value.                                                         *)
C4_CaseInvariance ==
    \A c \in Threads :
        \A S \in SUBSET (1..length[c]) :
            /\ AtLoopExit(c) =>
                  <<gc_count[c], valid_bases[c]>> = Counts(FlipAt(View(c), S))
            /\ Returned(c) =>
                  result[c] = calculate_gc_content(FlipAt(View(c), S))

C4_Witness ==
    /\ Returned(Main)
    /\ View(Main) = <<b_g, b_A, b_t>>
    /\ result[Main] = <<1, 3>>

(* C5: bytes outside A/C/G/T/a/c/g/t change neither counter: the counters  *)
(* of a scan are those of the scanned bytes with all such bytes deleted,   *)
(* the returned value is the one for the view with them deleted, and it    *)
(* is the one for the view with such a byte inserted at any position.      *)
C5_AmbiguityExclusion ==
    \A c \in Threads :
        /\ pc[c] = "loop" =>
              <<gc_count[c], valid_bases[c]>> = Counts(StripOther(Scanned(c)))
        /\ Returned(c) =>
              /\ result[c] = calculate_gc_content(StripOther(View(c)))
              /\ \A p \in 0..length[c], b \in Bytes \ RefValidBytes :
                    result[c] = calculate_gc_content(InsertAt(View(c), p, b))

C5_Witness ==
    /\ Returned(Main)
    /\ View(Main) = <<b_G, b_N, b_A>>
    /\ result[Main] = <<1, 2>>

(* C6: for every split point k of the view, the counter pairs of the two   *)
(* parts add up to the pair of the one-pass scan, and dividing the         *)
(* combined pair (0.0 when the combined valid count is 0) gives the        *)
(* returned value.                                                         *)
C6_Additivity ==
    \A c \in Threads :
        \A k \in 0..length[c] :
            LET left == Counts(SubSeq(View(c), 1, k))
                right == Counts(SubSeq(View(c), k + 1, length[c]))
            IN  /\ AtLoopExit(c) =>
                      /\ gc_count[c] = left[1] + right[1]
                      /\ valid_bases[c] = left[2] + right[2]
                /\ Returned(c) =>
                      result[c] = Ratio(left[1] + right[1], left[2] + right[2])

C6_Witness ==
    /\ Returned(Main)
    /\ View(Main) = <<b_G, b_A, b_c>>
    /\ result[Main] = <<2, 3>>

(* C7: the returned value and the final counters are the same for every    *)
(* permutation of the view's positions.                                    *)
C7_OrderIndependence ==
    \A c \in Threads :
        \A p \in Perms(length[c]) :
            /\ AtLoopExit(c) =>
                  <<gc_count[c], valid_bases[c]>> = Counts(Permute(View(c), p))
            /\ Returned(c) =>
                  result[c] = calculate_gc_content(Permute(View(c), p))

C7_Witness ==
    /\ Returned(Main)
    /\ View(Main) = <<b_A, b_N, b_G>>
    /\ result[Main] = <<1, 2>>

\* Every call in flight has the counters a call alone would have at the
\* same point of its own view, and every returned value is the value of a
\* call run alone on that view.
EachCallAsIfAlone ==
    \A c \in Threads :
        /\ pc[c] = "loop" =>
              <<gc_count[c], valid_bases[c]>> = Counts(Scanned(c))
        /\ Returned(c) => result[c] = calculate_gc_content(View(c))

(* C8: under any history of earlier calls and any interleaving of calls of *)
(* several threads over equal, overlapping or disjoint views, every call   *)
(* computes what it would compute alone on its own view, and no step       *)
(* changes the buffer.                                                     *)
C8_Stateless == [](EachCallAsIfAlone) /\ [][buffer' = buffer]_vars

\* Two calls of different threads, both in the middle of their scans, over
\* overlapping views of the same buffer.
C8_Witness ==
    /\ pc[1] = "loop" /\ pc[2] = "loop"
    /\ sequence[1] = 0 /\ length[1] = 2 /\ iter[1] = 1
    /\ sequence[2] = 1 /\ length[2] = 1 /\ iter[2] = 1
    /\ gc_count[1] = 1 /\ valid_bases[2] = 1 /\ gc_count[2] = 0

(* C9: a call with length n reads the view indices 0, 1, ..., n-1, each    *)
(* once and in increasing order, and returns after n iterations; a call    *)
(* with n = 0 returns 0.0 without forming the slice and without a read.    *)
C9_BoundedSinglePass ==
    \A c \in Threads :
        /\ pc[c] = "loop" =>
              /\ slice_formed[c]
              /\ iter[c] <= length[c]
              /\ reads[c] = [k \in 1..iter[c] |-> k - 1]
        /\ Returned(c) =>
              /\ reads[c] = [k \in 1..length[c] |-> k - 1]
              /\ length[c] = 0 =>
                    /\ ~slice_formed[c]
                    /\ reads[c] = <<>>
                    /\ result[c] = F64Zero

C9_Witness ==
    /\ Returned(Main)
    /\ reads[Main] = <<0, 1, 2>>
    /\ slice_formed[Main]

(* C10: a call returns 0.0 exactly when its view holds no G/C/g/c byte     *)
(* (so a view with one returns a strictly positive value), and 1.0         *)
(* exactly when it holds at least one G/C/g/c byte and no A/T/a/t byte.    *)
C10_ExtremeResults ==
    \A c \in Threads :
        Returned(c) =>
            /\ result[c] = F64Zero <=> CountIn(View(c), RefGcBytes) = 0
            /\ CountIn(View(c), RefGcBytes) > 0 => F64Lt(F64Zero, result[c])
            /\ result[c] = F64One <=>
                  /\ CountIn(View(c), RefGcBytes) > 0
                  /\ CountIn(View(c), RefAtBytes) = 0

C10_Witness ==
    /\ Returned(Main)
    /\ View(Main) = <<b_G, b_A, b_T>>
    /\ result[Main] = <<1, 3>>

====
